---- MODULE Spec2Model ----
(***************************************************************************)
(* A model of crypto_base: the resilient gRPC stream client                *)
(* (grpc_streamer.py, BaseStreamer) and the generic repository             *)
(* (repository.py, BaseRepository / AsyncBaseRepository).                  *)
(*                                                                         *)
(* Four independent parts share the module, each with its own              *)
(* specification: SpecStream / LiveStream (the stream client),             *)
(* SpecWrite (create / update / bulk_create), SpecPage (get_paginated)     *)
(* and SpecQuery (get_all in both variants).                               *)
(***************************************************************************)
EXTENDS Integers, Sequences, FiniteSets, TLC

(***************************************************************************)
(* Bounds of the model.                                                    *)
(***************************************************************************)
NumTasks == 2          \* concurrent asyncio tasks sharing one BaseStreamer
MaxCalls == 2          \* calls (send_data or connect) the tasks make in all
NumEntities == 2       \* instances the repository is handed
MaxTime == 2           \* readings of the clock
MaxCount == 25         \* rows a paged or counted query selects
MaxLimit == 10         \* largest limit passed to get_paginated
MaxPage == 4           \* largest page passed to get_paginated
LowArg == 2            \* limit and page go down to -LowArg
NumRows == 3           \* rows of the table get_all reads

\* BaseStreamer.RECONNECT_DELAY, in seconds
RECONNECT_DELAY == 3

VARIABLES
    \* ---- BaseStreamer fields -------------------------------------------
    channel,        \* self.channel: 0 is None, else the id of the channel
    stub,           \* self.stub: 0 is None, else the id of its channel
    stream,         \* self.stream: 0 is None, else the id of its channel
    lockHolder,     \* asyncio.Lock._locked, per lock: 0 or the holding task
    lockWaiters,    \* asyncio.Lock._waiters, per lock: FIFO of tasks
    \* ---- the tasks ------------------------------------------------------
    pc,             \* where each task is suspended
    ctx,            \* who called connect(): "direct", "ensure" or "handle"
    calls,          \* calls made so far, by all tasks together
    \* ---- what the transport and the callers saw -------------------------
    nChan,          \* channels constructed so far (the id of the last one)
    call,           \* per task, the record of its current or last call
    \* ---- repository: the session, the store, the entities -------------
    hasUpdatedAt,   \* hasattr(instance, "updated_at") for the bound model
    store,          \* committed rows: id -> "absent" or the row's fields
    mem,            \* in-memory instances: id -> fields and freshness
    pending,        \* ids added to the session and not yet committed
    clock,          \* the last reading of dt.now(tz.utc)
    wpc,            \* where the running write operation is
    op,             \* the record of the current or last write operation
    \* ---- repository: get_paginated -------------------------------------
    pIn,            \* the arguments of a get_paginated call
    pOut,           \* the dict it returned
    \* ---- repository: get_all -------------------------------------------
    qIn,            \* the table and the arguments of a get_all call
    qOut            \* what each variant returned for them

pvars == <<pIn, pOut>>
qvars == <<qIn, qOut>>

wvars == <<hasUpdatedAt, store, mem, pending, clock, wpc, op>>

vars == <<channel, stub, stream, lockHolder, lockWaiters, pc, ctx, calls,
          nChan, call, hasUpdatedAt, store, mem, pending, clock, wpc, op,
          pIn, pOut, qIn, qOut>>

svars == <<channel, stub, stream, lockHolder, lockWaiters,
           pc, ctx, calls, nChan, call>>

Tasks == 1..NumTasks

\* except (grpc.aio.AioRpcError, asyncio.InvalidStateError) catches
\* "transport"; any other exception class is "other".
ExcKinds == {"transport", "other"}

WriteLock == "_lock"

\* connect() takes self._connecting, a lock of its own (were it self._lock,
\* connect() would share the lock send_data holds when it reconnects)
ConnectLockShared == "_lock"
ConnectLock == "_connecting"

LockNames == {"_lock", "_connecting"}

\* The record kept of one call, for the properties.
NoCall ==
    [kind |-> "none", result |-> "none", writes |-> 0, handled |-> 0,
     built |-> 0, waited |-> FALSE, slept |-> 0, firstFailed |-> FALSE,
     opened |-> 0, retriedOn |-> 0, seenChan |-> 0,
     delivered |-> FALSE, halfClosed |-> FALSE, closed |-> 0]

(***************************************************************************)
(* asyncio.Lock, as BaseStreamer uses it through "async with".  acquire()  *)
(* takes the lock at once when it is free and nobody queues for it;        *)
(* otherwise the task queues and is woken, first come first served, once   *)
(* release() has freed the lock.                                           *)
(***************************************************************************)
\* (a lock that excludes nobody)
CanAcquireUnguarded(l) == TRUE
CanAcquire(l) == lockHolder[l] = 0 /\ lockWaiters[l] = <<>>

CanWake(l, p) ==
    /\ lockHolder[l] = 0
    /\ lockWaiters[l] # <<>>
    /\ Head(lockWaiters[l]) = p

\* connect() line 27: the channel is closed first only when there is one
AfterConnectLock == IF channel # 0 THEN "c_close" ELSE "c_create"

\* connect() lines 30-32, "Always recreate channel and stub" (and not only
\* when there is no channel yet)
RecreateOnlyIfNone == channel = 0
AlwaysRecreate == TRUE

\* "async with self._connecting" of connect(), entered by task p on behalf
\* of c; rec is the task's call record.
ConnEnter(p, c, rec) ==
    /\ ctx' = [ctx EXCEPT ![p] = c]
    /\ IF CanAcquire(ConnectLock)
       THEN /\ lockHolder' = [lockHolder EXCEPT ![ConnectLock] = p]
            /\ lockWaiters' = lockWaiters
            /\ pc' = [pc EXCEPT ![p] = AfterConnectLock]
            /\ call' = [call EXCEPT ![p] = [rec EXCEPT !.seenChan = channel]]
       ELSE /\ lockHolder' = lockHolder
            /\ lockWaiters' = [lockWaiters EXCEPT ![ConnectLock] = Append(@, p)]
            /\ pc' = [pc EXCEPT ![p] = "c_wait"]
            /\ call' = [call EXCEPT ![p] = [rec EXCEPT !.waited = TRUE]]

\* connect() returns normally to whoever called it: connect's own caller,
\* _ensure_stream_alive (send_data goes on to the write, line 50) or
\* _handle_stream_error (send_data goes on to the retry, line 56, and
\* starts it on what self.stream is at that moment, cur).
ConnReturn(p, rec, cur) ==
    /\ lockHolder' = [lockHolder EXCEPT ![ConnectLock] = 0]
    /\ lockWaiters' = lockWaiters
    /\ ctx' = ctx
    /\ CASE ctx[p] = "direct" ->
              /\ pc' = [pc EXCEPT ![p] = "idle"]
              /\ call' = [call EXCEPT ![p] = [rec EXCEPT !.result = "returned"]]
         [] ctx[p] = "ensure" ->
              /\ pc' = [pc EXCEPT ![p] = "write"]
              /\ call' = [call EXCEPT ![p] = rec]
         [] ctx[p] = "handle" ->
              /\ pc' = [pc EXCEPT ![p] = "retry"]
              /\ call' = [call EXCEPT ![p] = [rec EXCEPT !.retriedOn = cur]]

\* An exception of kind k leaves connect().  Raised under
\* _ensure_stream_alive, the except clause of line 51 catches the transport
\* kinds only; raised under _handle_stream_error, which runs inside that
\* except clause, nothing catches it.
ConnRaise(p, rec, k) ==
    /\ lockWaiters' = lockWaiters
    /\ ctx' = ctx
    /\ CASE ctx[p] = "direct" ->
              /\ lockHolder' = [lockHolder EXCEPT ![ConnectLock] = 0]
              /\ pc' = [pc EXCEPT ![p] = "idle"]
              /\ call' = [call EXCEPT ![p] = [rec EXCEPT !.result = "raised"]]
         [] ctx[p] = "ensure" /\ k = "transport" ->
              /\ lockHolder' = [lockHolder EXCEPT ![ConnectLock] = 0]
              /\ pc' = [pc EXCEPT ![p] = "halfclose"]
              /\ call' = [call EXCEPT ![p] = rec]
         [] OTHER ->
              /\ lockHolder' = [lockHolder EXCEPT ![ConnectLock] = 0, ![WriteLock] = 0]
              /\ pc' = [pc EXCEPT ![p] = "idle"]
              /\ call' = [call EXCEPT ![p] = [rec EXCEPT !.result = "raised"]]

(***************************************************************************)
(* BaseStreamer.connect                                                    *)
(***************************************************************************)
\* a task calls connect() itself
Connect(p) ==
    /\ pc[p] = "idle"
    /\ calls < MaxCalls
    /\ calls' = calls + 1
    /\ ConnEnter(p, "direct", [NoCall EXCEPT !.kind = "connect"])
    /\ UNCHANGED <<channel, stub, stream, nChan>>
    /\ UNCHANGED <<wvars, pvars, qvars>>

\* a task queued on _connecting is woken and enters the body of connect()
ConnWake(p) ==
    /\ pc[p] = "c_wait"
    /\ CanWake(ConnectLock, p)
    /\ lockHolder' = [lockHolder EXCEPT ![ConnectLock] = p]
    /\ lockWaiters' = [lockWaiters EXCEPT ![ConnectLock] = Tail(@)]
    /\ pc' = [pc EXCEPT ![p] = AfterConnectLock]
    /\ call' = [call EXCEPT ![p].seenChan = channel]
    /\ UNCHANGED <<channel, stub, stream, ctx, calls, nChan>>
    /\ UNCHANGED <<wvars, pvars, qvars>>

\* line 28: await self.channel.close()
ChannelClose(p) ==
    /\ pc[p] = "c_close"
    /\ \/ /\ pc' = [pc EXCEPT ![p] = "c_create"]
          /\ call' = [call EXCEPT ![p].closed = channel]
          /\ UNCHANGED <<lockHolder, lockWaiters, ctx>>
       \/ \E k \in ExcKinds : ConnRaise(p, call[p], k)
    /\ UNCHANGED <<channel, stub, stream, calls, nChan>>
    /\ UNCHANGED <<wvars, pvars, qvars>>

\* lines 31-32: self.channel = insecure_channel(..); self.stub = stub_class(..)
ChannelCreate(p) ==
    /\ pc[p] = "c_create"
    /\ \/ /\ IF AlwaysRecreate
             THEN /\ channel' = nChan + 1
                  /\ stub' = nChan + 1
                  /\ nChan' = nChan + 1
                  /\ call' = [call EXCEPT ![p].built = @ + 1]
             ELSE UNCHANGED <<channel, stub, nChan, call>>
          /\ pc' = [pc EXCEPT ![p] = "c_stream"]
          /\ UNCHANGED <<lockHolder, lockWaiters, ctx>>
       \/ \* stub_class(self.channel) raises: the channel is already assigned
          /\ channel' = nChan + 1
          /\ nChan' = nChan + 1
          /\ stub' = stub
          /\ \E k \in ExcKinds :
                ConnRaise(p, [call[p] EXCEPT !.built = @ + 1], k)
    /\ UNCHANGED <<stream, calls>>
    /\ UNCHANGED <<wvars, pvars, qvars>>

\* line 33: self.stream = await self._create_stream()
CreateStream(p) ==
    /\ pc[p] = "c_stream"
    /\ \/ /\ stream' = channel
          /\ ConnReturn(p, [call[p] EXCEPT !.opened = channel], stream')
       \/ /\ \E k \in ExcKinds : ConnRaise(p, call[p], k)
          /\ UNCHANGED stream
    /\ UNCHANGED <<channel, stub, calls, nChan>>
    /\ UNCHANGED <<wvars, pvars, qvars>>

(***************************************************************************)
(* BaseStreamer.send_data, _ensure_stream_alive, _handle_stream_error      *)
(***************************************************************************)
\* line 47: async with self._lock
SendData(p) ==
    /\ pc[p] = "idle"
    /\ calls < MaxCalls
    /\ calls' = calls + 1
    /\ call' = [call EXCEPT ![p] = [NoCall EXCEPT !.kind = "send"]]
    /\ IF CanAcquire(WriteLock)
       THEN /\ lockHolder' = [lockHolder EXCEPT ![WriteLock] = p]
            /\ lockWaiters' = lockWaiters
            /\ pc' = [pc EXCEPT ![p] = "alive"]
       ELSE /\ lockHolder' = lockHolder
            /\ lockWaiters' = [lockWaiters EXCEPT ![WriteLock] = Append(@, p)]
            /\ pc' = [pc EXCEPT ![p] = "w_wait"]
    /\ UNCHANGED <<channel, stub, stream, ctx, nChan>>
    /\ UNCHANGED <<wvars, pvars, qvars>>

\* a task queued on _lock is woken and enters the body of send_data
SendWake(p) ==
    /\ pc[p] = "w_wait"
    /\ CanWake(WriteLock, p)
    /\ lockHolder' = [lockHolder EXCEPT ![WriteLock] = p]
    /\ lockWaiters' = [lockWaiters EXCEPT ![WriteLock] = Tail(@)]
    /\ pc' = [pc EXCEPT ![p] = "alive"]
    /\ UNCHANGED <<channel, stub, stream, ctx, calls, nChan,
                   call>>
    /\ UNCHANGED <<wvars, pvars, qvars>>

\* lines 40-44 and 49: _ensure_stream_alive.  What self.stream.done()
\* answers is the transport's to say: the peer or the network may have
\* ended the stream at any moment since it was opened.
EnsureStreamAlive(p) ==
    /\ pc[p] = "alive"
    /\ \E done \in BOOLEAN :
          IF stream = 0 \/ done
          THEN ConnEnter(p, "ensure", call[p])
          ELSE /\ pc' = [pc EXCEPT ![p] = "write"]
               /\ UNCHANGED <<lockHolder, lockWaiters, ctx, call>>
    /\ UNCHANGED <<channel, stub, stream, calls, nChan>>
    /\ UNCHANGED <<wvars, pvars, qvars>>

\* line 50: await self.stream.write(data)
StreamWrite(p) ==
    /\ pc[p] = "write"
    /\ \/ \* written
          /\ lockHolder' = [lockHolder EXCEPT ![WriteLock] = 0]
          /\ pc' = [pc EXCEPT ![p] = "idle"]
          /\ call' = [call EXCEPT ![p] =
                [@ EXCEPT !.writes = @ + 1, !.result = "returned",
                          !.delivered = TRUE]]
       \/ \* AioRpcError or InvalidStateError: caught at line 51
          /\ lockHolder' = lockHolder
          /\ pc' = [pc EXCEPT ![p] = "halfclose"]
          /\ call' = [call EXCEPT ![p] =
                [@ EXCEPT !.writes = @ + 1, !.firstFailed = TRUE]]
       \/ \* any other exception leaves send_data
          /\ lockHolder' = [lockHolder EXCEPT ![WriteLock] = 0]
          /\ pc' = [pc EXCEPT ![p] = "idle"]
          /\ call' = [call EXCEPT ![p] =
                [@ EXCEPT !.writes = @ + 1, !.result = "raised"]]
    /\ UNCHANGED <<channel, stub, stream, lockWaiters, ctx, calls,
                   nChan>>
    /\ UNCHANGED <<wvars, pvars, qvars>>

\* lines 62-66: best-effort done_writing() on the old stream; whether it
\* succeeds or raises, _handle_stream_error goes on
HalfClose(p) ==
    /\ pc[p] = "halfclose"
    /\ \E ok \in BOOLEAN :
          /\ pc' = [pc EXCEPT ![p] = "sleep"]
          /\ call' = [call EXCEPT ![p] =
                [@ EXCEPT !.handled = @ + 1, !.halfClosed = (stream # 0)]]
    /\ UNCHANGED <<channel, stub, stream, lockHolder, lockWaiters,
                   ctx, calls, nChan>>
    /\ UNCHANGED <<wvars, pvars, qvars>>

\* lines 68-69: await asyncio.sleep(RECONNECT_DELAY); await self.connect()
Backoff(p) ==
    /\ pc[p] = "sleep"
    /\ ConnEnter(p, "handle",
                 [call[p] EXCEPT !.slept = @ + RECONNECT_DELAY, !.opened = 0])
    /\ UNCHANGED <<channel, stub, stream, calls, nChan>>
    /\ UNCHANGED <<wvars, pvars, qvars>>

\* after the retry, failed or not, send_data returns (lines 55-58); it
\* does not start the reconnect sequence again
AfterRetryAgain == "halfclose"
AfterRetry == "idle"

\* lines 55-58: the one retry; whatever it raises is logged and dropped
RetryWrite(p) ==
    /\ pc[p] = "retry"
    /\ \E ok \in BOOLEAN :
          /\ pc' = [pc EXCEPT ![p] = IF ok THEN "idle" ELSE AfterRetry]
          /\ lockHolder' = IF ok \/ AfterRetry = "idle"
                           THEN [lockHolder EXCEPT ![WriteLock] = 0]
                           ELSE lockHolder
          /\ call' = [call EXCEPT ![p] =
                [@ EXCEPT !.writes = @ + 1,
                          !.delivered = ok,
                          !.result = IF ok \/ AfterRetry = "idle"
                                     THEN "returned" ELSE "none"]]
    /\ UNCHANGED <<channel, stub, stream, lockWaiters, ctx, calls,
                   nChan>>
    /\ UNCHANGED <<wvars, pvars, qvars>>

\* __init__, lines 16-23
InitStream ==
    /\ channel = 0
    /\ stub = 0
    /\ stream = 0
    /\ lockHolder = [l \in LockNames |-> 0]
    /\ lockWaiters = [l \in LockNames |-> <<>>]
    /\ pc = [p \in Tasks |-> "idle"]
    /\ ctx = [p \in Tasks |-> "direct"]
    /\ calls = 0
    /\ nChan = 0
    /\ call = [p \in Tasks |-> NoCall]

TaskStep(p) ==
    \/ ConnWake(p)
    \/ ChannelClose(p)
    \/ ChannelCreate(p)
    \/ CreateStream(p)
    \/ SendWake(p)
    \/ EnsureStreamAlive(p)
    \/ StreamWrite(p)
    \/ HalfClose(p)
    \/ Backoff(p)
    \/ RetryWrite(p)

NextStream ==
    \/ \E p \in Tasks : Connect(p)
    \/ \E p \in Tasks : SendData(p)
    \/ \E p \in Tasks : TaskStep(p)

(***************************************************************************)
(* BaseRepository / AsyncBaseRepository: create, update, bulk_create       *)
(*                                                                         *)
(* One task owns the session, so one write operation runs at a time; it    *)
(* is modelled call by call on the session: add / add_all, commit, one     *)
(* refresh per instance, and rollback in the except clause.  add, commit   *)
(* and refresh may each raise; rollback is taken to succeed.               *)
(***************************************************************************)
Ids == 1..NumEntities
Names == {"a", "x"}
Times == 0..MaxTime
Variants == {"blocking", "non-blocking"}

\* **update_kwargs: a map from some of the fields to values, written as a
\* record in which a key that is not passed holds Unset / UnsetTime
Unset == "<not passed>"
UnsetTime == 0 - 1
Kwargs == [name : Names \cup {Unset}, updated_at : Times \cup {UnsetTime}]

\* the keys passed are attributes of the model
WellTyped(kw) == hasUpdatedAt \/ kw.updated_at = UnsetTime

\* instances lists handed to bulk_create
Batches ==
    {<<>>} \cup { <<i>> : i \in Ids }
           \cup { <<i, j>> : <<i, j>> \in { ij \in Ids \X Ids : ij[1] # ij[2] } }

SeqRange(q) == { q[k] : k \in 1..Len(q) }

NoOp ==
    [kind |-> "none", variant |-> "blocking", batch |-> <<>>, idx |-> 0,
     exc |-> "none", raised |-> "none", result |-> "none",
     committed |-> FALSE, rolledBack |-> FALSE,
     prior |-> 0, now |-> 0, handed |-> 0,
     kwargs |-> [name |-> Unset, updated_at |-> UnsetTime]]

\* lines 39-40 / 188-189: for key, value in update_kwargs.items(): setattr
ApplyKwargs(rec, kw) ==
    [rec EXCEPT !.name = IF kw.name = Unset THEN @ ELSE kw.name,
                !.updated_at = IF kw.updated_at = UnsetTime THEN @
                               ELSE kw.updated_at]

\* lines 36-40 / 185-189: updated_at is stamped first, then the kwargs are
\* applied
StampAndApply(rec, kw, now) ==
    ApplyKwargs(IF hasUpdatedAt THEN [rec EXCEPT !.updated_at = now] ELSE rec, kw)

\* create(instance): lines 32-33 and 169-170
Create(v, i) ==
    /\ wpc = "idle"
    /\ op' = [NoOp EXCEPT !.kind = "create", !.variant = v, !.batch = <<i>>]
    /\ wpc' = "add"
    /\ UNCHANGED <<hasUpdatedAt, store, mem, pending, clock>>
    /\ UNCHANGED <<svars, pvars, qvars>>

\* bulk_create(instances): lines 172-182, the non-blocking variant only
BulkCreate(b) ==
    /\ wpc = "idle"
    /\ op' = [NoOp EXCEPT !.kind = "bulk_create", !.variant = "non-blocking",
                          !.batch = b]
    /\ wpc' = "add"
    /\ UNCHANGED <<hasUpdatedAt, store, mem, pending, clock>>
    /\ UNCHANGED <<svars, pvars, qvars>>

\* update(instance, **update_kwargs): lines 35-42 and 184-191.  The clock
\* is read once per call and each reading is later than the one before.
Update(v, i, kw) ==
    /\ wpc = "idle"
    /\ clock < MaxTime
    /\ WellTyped(kw)
    /\ clock' = clock + 1
    /\ mem' = [mem EXCEPT ![i] = StampAndApply(@, kw, clock')]
    /\ op' = [NoOp EXCEPT !.kind = "update", !.variant = v, !.batch = <<i>>,
                          !.prior = mem[i].updated_at, !.now = clock',
                          !.handed = mem'[i].updated_at, !.kwargs = kw]
    /\ wpc' = "add"
    /\ UNCHANGED <<hasUpdatedAt, store, pending>>
    /\ UNCHANGED <<svars, pvars, qvars>>

\* self.session.add(instance) / self.session.add_all(instances)
SessionAdd ==
    /\ wpc = "add"
    /\ \/ /\ pending' = pending \cup SeqRange(op.batch)
          /\ wpc' = "commit"
          /\ op' = op
       \/ /\ wpc' = "rollback"
          /\ op' = [op EXCEPT !.exc = "add failed"]
          /\ UNCHANGED pending
    /\ UNCHANGED <<hasUpdatedAt, store, mem, clock>>
    /\ UNCHANGED <<svars, pvars, qvars>>

\* what the store keeps of an instance
Row(m) == [name |-> m.name, updated_at |-> m.updated_at]

\* after the commit: the refresh loop starts, or there is nothing to refresh
AfterCommit == IF op.batch = <<>> THEN "idle" ELSE "refresh"

\* self.session.commit(): every pending row is written, or none is; the
\* committed instances are expired until refreshed
SessionCommit ==
    /\ wpc = "commit"
    /\ \/ /\ store' = [i \in Ids |-> IF i \in pending THEN Row(mem[i]) ELSE store[i]]
          /\ mem' = [i \in Ids |->
                        IF i \in pending THEN [mem[i] EXCEPT !.fresh = FALSE]
                        ELSE mem[i]]
          /\ pending' = {}
          /\ wpc' = AfterCommit
          /\ op' = [op EXCEPT !.committed = TRUE, !.idx = 1,
                              !.result = IF AfterCommit = "idle"
                                         THEN "returned" ELSE "none"]
       \/ /\ wpc' = "rollback"
          /\ op' = [op EXCEPT !.exc = "commit failed"]
          /\ UNCHANGED <<store, mem, pending>>
    /\ UNCHANGED <<hasUpdatedAt, clock>>
    /\ UNCHANGED <<svars, pvars, qvars>>

\* self.session.refresh(instance), for each instance in turn
SessionRefresh ==
    /\ wpc = "refresh"
    /\ LET i == op.batch[op.idx] IN
       \/ /\ mem' = [mem EXCEPT ![i] =
                        [name |-> store[i].name,
                         updated_at |-> store[i].updated_at,
                         fresh |-> TRUE]]
          /\ IF op.idx = Len(op.batch)
             THEN /\ wpc' = "idle"
                  /\ op' = [op EXCEPT !.result = "returned"]
             ELSE /\ wpc' = "refresh"
                  /\ op' = [op EXCEPT !.idx = @ + 1]
       \/ /\ wpc' = "rollback"
          /\ op' = [op EXCEPT !.exc = "refresh failed"]
          /\ UNCHANGED mem
    /\ UNCHANGED <<hasUpdatedAt, store, pending, clock>>
    /\ UNCHANGED <<svars, pvars, qvars>>

\* except Exception: self.session.rollback(); raise.  The rollback ends the
\* open transaction; what a commit has written stays written.
SessionRollback ==
    /\ wpc = "rollback"
    /\ pending' = {}
    /\ wpc' = "idle"
    /\ op' = [op EXCEPT !.rolledBack = TRUE, !.raised = op.exc,
                        !.result = "raised"]
    /\ UNCHANGED <<hasUpdatedAt, store, mem, clock>>
    /\ UNCHANGED <<svars, pvars, qvars>>

InitWrite ==
    /\ hasUpdatedAt \in BOOLEAN
    /\ store = [i \in Ids |-> "absent"]
    /\ mem = [i \in Ids |-> [name |-> "a", updated_at |-> 0, fresh |-> FALSE]]
    /\ pending = {}
    /\ clock = 0
    /\ wpc = "idle"
    /\ op = NoOp

ParkedWrite == InitWrite /\ hasUpdatedAt

NextWrite ==
    \/ \E v \in Variants, i \in Ids : Create(v, i)
    \/ \E b \in Batches : BulkCreate(b)
    \/ \E v \in Variants, i \in Ids, kw \in Kwargs : Update(v, i, kw)
    \/ SessionAdd
    \/ SessionCommit
    \/ SessionRefresh
    \/ SessionRollback

(***************************************************************************)
(* get_paginated, lines 84-105 (blocking) and 224-246 (non-blocking)       *)
(*                                                                         *)
(* An argument that may be None is the record None or Some(x).  The paged  *)
(* query selects rows 1..n, in that order.                                 *)
(***************************************************************************)
None == [some |-> FALSE, v |-> 0]
Some(x) == [some |-> TRUE, v |-> x]

Max(a, b) == IF a >= b THEN a ELSE b
Min(a, b) == IF a <= b THEN a ELSE b

\* max(limit or 1, 1), max(page or 1, 1): None and 0 are falsy
Clamp(x) == Max(IF ~x.some \/ x.v = 0 THEN 1 ELSE x.v, 1)

\* math.ceil(total_count / limit), for total_count >= 0 and limit >= 1
\* (the quotient is exact in floating point for the counts modelled); it is
\* the ceiling, not the floor
TotalPagesFloor(total_count, limit) == total_count \div limit
TotalPages(total_count, limit) == (total_count + limit - 1) \div limit

\* query.offset((page - 1) * limit).limit(limit), executed, on rows 1..n
Items(n, page, limit) ==
    [k \in 1..Max(0, Min(limit, n - (page - 1) * limit)) |-> (page - 1) * limit + k]

\* page + 1 if total_pages and page < total_pages else None
NextPage(page, total_pages) ==
    IF total_pages # 0 /\ page < total_pages THEN Some(page + 1) ELSE None

\* page - 1 if page > 1 else None (page 1 has no previous page)
PrevPageFromZero(page) == IF page > 0 THEN Some(page - 1) ELSE None
PrevPage(page) == IF page > 1 THEN Some(page - 1) ELSE None

\* BaseRepository.get_paginated: the count is taken over count_select_query
\* when one is passed (it selects a.count.v rows), else over the query
GetPaginated(a) ==
    LET limit == Clamp(a.limit)
        page == Clamp(a.page)
        total_count == IF a.count.some THEN a.count.v ELSE a.n
        total_pages == TotalPages(total_count, limit)
    IN  [done |-> TRUE,
         items |-> Items(a.n, page, limit),
         next_page |-> NextPage(page, total_pages),
         prev_page |-> PrevPage(page),
         total_pages |-> total_pages,
         total_count |-> total_count]

\* AsyncBaseRepository.get_paginated: the count is always over the query
AsyncGetPaginated(a) ==
    LET limit == Clamp(a.limit)
        page == Clamp(a.page)
        total_count == a.n
        total_pages == TotalPages(total_count, limit)
    IN  [done |-> TRUE,
         items |-> Items(a.n, page, limit),
         next_page |-> NextPage(page, total_pages),
         prev_page |-> PrevPage(page),
         total_pages |-> total_pages,
         total_count |-> total_count]

OptArgs(hi) == {None} \cup { Some(x) : x \in (0 - LowArg)..hi }

PageInputs ==
    [variant : {"blocking"}, n : 0..MaxCount,
     count : {None} \cup { Some(c) : c \in 0..MaxCount },
     limit : OptArgs(MaxLimit), page : OptArgs(MaxPage)]
    \cup
    [variant : {"non-blocking"}, n : 0..MaxCount, count : {None},
     limit : OptArgs(MaxLimit), page : OptArgs(MaxPage)]

NoPage ==
    [done |-> FALSE, items |-> <<>>, next_page |-> None, prev_page |-> None,
     total_pages |-> 0, total_count |-> 0]

PaginateBlocking ==
    /\ ~pOut.done
    /\ pIn.variant = "blocking"
    /\ pOut' = GetPaginated(pIn)
    /\ UNCHANGED pIn
    /\ UNCHANGED <<svars, wvars, qvars>>

PaginateAsync ==
    /\ ~pOut.done
    /\ pIn.variant = "non-blocking"
    /\ pOut' = AsyncGetPaginated(pIn)
    /\ UNCHANGED pIn
    /\ UNCHANGED <<svars, wvars, qvars>>

InitPage ==
    /\ pIn \in PageInputs
    /\ pOut = NoPage

ParkedPage ==
    /\ pIn = [variant |-> "blocking", n |-> 0, count |-> None,
              limit |-> None, page |-> None]
    /\ pOut = NoPage

NextPageCall == PaginateBlocking \/ PaginateAsync

(***************************************************************************)
(* get_all, lines 50-82 (blocking) and 198-222 (non-blocking), with        *)
(* _filter_query, _filter_clauses and the two _order_by.                   *)
(*                                                                         *)
(* The model class has the columns id, status and grp.  A filter value is  *)
(* None, a scalar, an enum member (with its .value) or an In wrapper.  A   *)
(* string of an order specification is the sequence of its parts, the      *)
(* leading "-" signs and the name: "-id" is <<"-", "id">>, "" is <<>>.     *)
(***************************************************************************)
Columns == {"id", "status", "grp"}
FilterKeys == {"status", "missing"}
Scalars == {1, 2}

NoneValue == [tag |-> "None", v |-> 0, items |-> <<>>]
Scalar(x) == [tag |-> "scalar", v |-> x, items |-> <<>>]
EnumMember(x) == [tag |-> "enum", v |-> x, items |-> <<>>]
In(xs) == [tag |-> "In", v |-> 0, items |-> xs]

FilterValues ==
    {NoneValue} \cup { Scalar(x) : x \in Scalars }
                \cup { EnumMember(x) : x \in Scalars }
                \cup { In(xs) : xs \in {<<>>, <<1>>, <<2>>, <<1, 2>>} }

\* **filters: a map from the keys passed to their values
FilterMaps == UNION { [ks -> FilterValues] : ks \in SUBSET FilterKeys }

OrderStrings == {<<>>, <<"id">>, <<"-", "id">>, <<"-", "grp">>, <<"missing">>}

\* order_by: None, one string, or a list of strings
OrderSpecs ==
    {[kind |-> "None", items |-> <<>>]}
    \cup { [kind |-> "str", items |-> <<x>>] : x \in OrderStrings }
    \cup { [kind |-> "list", items |-> xs] :
              xs \in {<<>>} \cup { <<x>> : x \in OrderStrings }
                            \cup { <<x, y>> : <<x, y>> \in OrderStrings \X OrderStrings } }

Tables ==
    { [k \in 1..NumRows |-> [id |-> k, status |-> st[k], grp |-> gr[k]]] :
          <<st, gr>> \in [1..NumRows -> Scalars] \X [1..NumRows -> Scalars] }

\* hasattr(model, field)
HasAttr(field) == field \in Columns

\* _filter_clauses, lines 126-140
FilterClauses(filters) ==
    { IF filters[f].tag = "In"
      THEN IF filters[f].items = <<>>
           THEN [op |-> "false", column |-> f, operand |-> filters[f]]
           ELSE [op |-> "in", column |-> f, operand |-> filters[f]]
      ELSE [op |-> "eq", column |-> f, operand |-> filters[f]]
      : f \in { g \in DOMAIN filters : HasAttr(g) /\ filters[g].tag # "None" } }

\* the where clauses of the non-blocking get_all, lines 206-214: an enum
\* member is replaced by its value, every value is compared with ==
AsyncWhereClauses(filters) ==
    LET value(f) == IF filters[f].tag = "enum" THEN Scalar(filters[f].v)
                    ELSE filters[f]
    IN  { [op |-> "eq", column |-> f, operand |-> value(f)]
          : f \in { g \in DOMAIN filters : HasAttr(g) /\ value(g).tag # "None" } }

\* field.startswith("-") and field[1:]
StartsWithDash(field) == Len(field) > 0 /\ field[1] = "-"
FieldName(field) == IF StartsWithDash(field) THEN Tail(field) ELSE field
NamesColumn(name) == Len(name) = 1 /\ HasAttr(name[1])

\* a falsy order_by: None, "" or []
NoOrder(o) ==
    \/ o.kind = "None"
    \/ o.kind = "list" /\ o.items = <<>>
    \/ o.kind = "str" /\ o.items[1] = <<>>

RECURSIVE OrderExprs(_, _)
\* BaseRepository._order_by, lines 142-160: the loop over the fields;
\* skipEmpty is the "if not field: continue" of line 151
OrderExprs(fields, skipEmpty) ==
    IF fields = <<>> THEN <<>>
    ELSE LET field == Head(fields)
             rest == OrderExprs(Tail(fields), skipEmpty)
         IN  IF skipEmpty /\ field = <<>> THEN rest
             ELSE IF NamesColumn(FieldName(field))
                  THEN <<[column |-> FieldName(field)[1],
                          descending |-> StartsWithDash(field)]>> \o rest
                  ELSE rest

OrderBy(o) == IF NoOrder(o) THEN <<>> ELSE OrderExprs(o.items, TRUE)

\* AsyncBaseRepository._order_by, lines 259-274
AsyncOrderBy(o) == IF NoOrder(o) THEN <<>> ELSE OrderExprs(o.items, FALSE)

\* a row satisfies a clause; == binds a scalar, and an enum member as its
\* value
Satisfies(row, c) ==
    CASE c.op = "false" -> FALSE
      [] c.op = "in" -> row[c.column] \in SeqRange(c.operand.items)
      [] c.op = "eq" -> row[c.column] = c.operand.v

RECURSIVE Before(_, _, _)
\* ORDER BY: row r sorts strictly before row t
Before(r, t, exprs) ==
    IF exprs = <<>> THEN FALSE
    ELSE LET e == Head(exprs) IN
         IF r[e.column] = t[e.column] THEN Before(r, t, Tail(exprs))
         ELSE IF e.descending THEN r[e.column] > t[e.column]
              ELSE r[e.column] < t[e.column]

RECURSIVE Insert(_, _, _)
Insert(row, sorted, exprs) ==
    IF sorted = <<>> THEN <<row>>
    ELSE IF Before(row, Head(sorted), exprs)
         THEN <<row>> \o sorted
         ELSE <<Head(sorted)>> \o Insert(row, Tail(sorted), exprs)

RECURSIVE Sorted(_, _)
\* the rows in ORDER BY order; rows the keys do not tell apart keep the
\* order the store has them in
Sorted(rows, exprs) ==
    IF rows = <<>> THEN <<>>
    ELSE Insert(rows[Len(rows)],
                Sorted(SubSeq(rows, 1, Len(rows) - 1), exprs), exprs)

RECURSIVE Where(_, _)
Where(rows, clauses) ==
    IF rows = <<>> THEN <<>>
    ELSE (IF \A c \in clauses : Satisfies(Head(rows), c)
          THEN <<Head(rows)>> ELSE <<>>) \o Where(Tail(rows), clauses)

\* session.exec(query).all() / session.execute(query).scalars().all(): the
\* driver cannot bind an In object as the operand of ==, and the statement
\* fails
Execute(table, clauses, exprs) ==
    IF \E c \in clauses : c.op = "eq" /\ c.operand.tag = "In"
    THEN [raised |-> TRUE, rows |-> <<>>]
    ELSE [raised |-> FALSE, rows |-> Sorted(Where(table, clauses), exprs)]

\* BaseRepository.get_all(order_by=.., **filters), exec_query=True
GetAll(a) == Execute(a.table, FilterClauses(a.filters), OrderBy(a.order_by))

\* AsyncBaseRepository.get_all(order_by=.., **filters), exec_query=True
AsyncGetAll(a) ==
    Execute(a.table, AsyncWhereClauses(a.filters), AsyncOrderBy(a.order_by))

Pending == [done |-> FALSE, raised |-> FALSE, rows |-> <<>>]
Returned(r) == [done |-> TRUE, raised |-> r.raised, rows |-> r.rows]

GetAllBlocking ==
    /\ ~qOut["blocking"].done
    /\ qOut' = [qOut EXCEPT !["blocking"] = Returned(GetAll(qIn))]
    /\ UNCHANGED qIn
    /\ UNCHANGED <<svars, wvars, pvars>>

GetAllAsync ==
    /\ ~qOut["non-blocking"].done
    /\ qOut' = [qOut EXCEPT !["non-blocking"] = Returned(AsyncGetAll(qIn))]
    /\ UNCHANGED qIn
    /\ UNCHANGED <<svars, wvars, pvars>>

InitQuery ==
    /\ qIn \in [table : Tables, filters : FilterMaps, order_by : OrderSpecs]
    /\ qOut = [v \in Variants |-> Pending]

ParkedQuery ==
    /\ qIn = [table |-> <<>>, filters |-> <<>>,
              order_by |-> [kind |-> "None", items |-> <<>>]]
    /\ qOut = [v \in Variants |-> Pending]

NextQuery == GetAllBlocking \/ GetAllAsync

(***************************************************************************)
(* The specifications                                                      *)
(***************************************************************************)
StreamInit == InitStream /\ ParkedWrite /\ ParkedPage /\ ParkedQuery
WriteInit == InitStream /\ InitWrite /\ ParkedPage /\ ParkedQuery
PageInit == InitStream /\ ParkedWrite /\ InitPage /\ ParkedQuery
QueryInit == InitStream /\ ParkedWrite /\ ParkedPage /\ InitQuery

SpecStream == StreamInit /\ [][NextStream]_vars

\* the scheduling of the event loop: a task that can run does run, and each
\* transport operation a task awaits completes, with a result or a failure
LiveStream == SpecStream /\ \A p \in Tasks : WF_vars(TaskStep(p))

SpecWrite == WriteInit /\ [][NextWrite]_vars

SpecPage == PageInit /\ [][NextPageCall]_vars

SpecQuery == QueryInit /\ [][NextQuery]_vars

(***************************************************************************)
(* Properties of the stream client                                         *)
(***************************************************************************)
Finished(p) == pc[p] = "idle" /\ call[p].result # "none"

InConnectBody(p) == pc[p] \in {"c_close", "c_create", "c_stream"}

\* between the start of the liveness check and the end of the (retried) write
InSendBody(p) == call[p].kind = "send" /\ pc[p] \notin {"idle", "w_wait"}

\* C2: send_data never raises to its caller, whatever fails underneath.
SendDataNeverRaises ==
    \A p \in Tasks : call[p].kind = "send" => call[p].result # "raised"

LoserObservesWinner ==
    \A p, q \in Tasks :
        ( /\ p # q
          /\ call[p].kind = "connect" /\ call[p].result = "returned"
          /\ call[q].kind = "connect" /\ call[q].result = "returned"
          /\ call[q].waited
          /\ call[q].seenChan = call[p].opened )
            => /\ call[q].built = 0
               /\ call[q].closed = 0
               /\ call[p].built + call[q].built = 1

\* C4 as amended: at most one task is inside the body of connect() at a
\* time, and every connect() call that returns normally has closed the
\* channel it found, if any, and constructed one fresh channel and stream of
\* its own, also when it had to wait for a connect in progress.
ConnectSerializedAndRecreates ==
    /\ \A p, q \in Tasks : InConnectBody(p) /\ InConnectBody(q) => p = q
    /\ \A p \in Tasks :
          (call[p].kind = "connect" /\ call[p].result = "returned")
              => /\ call[p].built = 1
                 /\ call[p].closed = call[p].seenChan
                 /\ call[p].opened > call[p].seenChan

\* two concurrent connect() callers, both done: the one that waited found
\* the winner's channel, closed it and built a second one
ConnectSerializedWitness ==
    \E p, q \in Tasks :
        /\ p # q
        /\ call[p].kind = "connect" /\ call[p].result = "returned"
        /\ call[q].kind = "connect" /\ call[q].result = "returned"
        /\ call[q].waited
        /\ call[q].seenChan = call[p].opened
        /\ call[q].seenChan # 0

\* C5: no deadlock.  Every call that has started eventually ends, and a
\* task holding the write lock or the connect lock eventually releases it,
\* so no task waits on a lock forever.
NoDeadlock ==
    \A p \in Tasks :
        (pc[p] # "idle") ~>
            (pc[p] = "idle" /\ \A l \in LockNames : lockHolder[l] # p)

\* a send_data holding the write lock is inside the connect() its
\* reconnect triggered, while another send_data queues for the write lock
NoDeadlockWitness ==
    \E p, q \in Tasks :
        /\ p # q
        /\ lockHolder[WriteLock] = p
        /\ lockHolder[ConnectLock] = p
        /\ ctx[p] = "handle"
        /\ pc[q] = "w_wait"

\* C6: at most one send_data call at a time is between the start of its
\* liveness check and the end of its write or retried write.
OneWriteInFlight ==
    \A p, q \in Tasks : InSendBody(p) /\ InSendBody(q) => p = q

\* one send_data sleeps the backoff delay, or is inside the connect() it
\* triggered, while another one waits for the write lock
OneWriteInFlightWitness ==
    \E p, q \in Tasks :
        /\ p # q
        /\ pc[p] \in {"sleep", "c_close", "c_create", "c_stream"}
        /\ call[p].kind = "send"
        /\ call[q].kind = "send"
        /\ pc[q] = "w_wait"

(***************************************************************************)
(* Properties of the repository                                            *)
(***************************************************************************)
\* C1: every write operation ends in one of two ways, whichever of add,
\* commit or a refresh fails: all rows committed, every instance refreshed
\* and a normal return; or nothing committed, the transaction rolled back
\* and the original exception raised.
WriteAllOrNothing ==
    (wpc = "idle" /\ op.kind # "none") =>
        \/ /\ op.result = "returned"
           /\ op.committed
           /\ \A i \in SeqRange(op.batch) : mem[i].fresh
        \/ /\ op.result = "raised"
           /\ ~op.committed
           /\ op.rolledBack
           /\ op.raised = op.exc

\* C9: on every update() of a model that has updated_at, whatever the
\* kwargs, the instance handed to the session carries the time of the call,
\* which is later than the value it had.
UpdateStampsNow ==
    (op.kind = "update" /\ hasUpdatedAt) =>
        /\ op.handed = op.now
        /\ op.now > op.prior

\* what the caller's limit and page count as: at least 1
AtLeastOne(x) == IF x.some /\ x.v >= 1 THEN x.v ELSE 1

\* C7: for every total_count, limit and page (0 and negatives counting as
\* 1), in both variants: total_pages is the ceiling of total_count / limit,
\* items are the rows from offset (page-1)*limit on, limit of them at most,
\* next_page is page+1 exactly when page < total_pages, prev_page is page-1
\* exactly when page > 1.
PaginationArithmetic ==
    pOut.done =>
        LET L == AtLeastOne(pIn.limit)
            P == AtLeastOne(pIn.page)
            tc == pOut.total_count
            tp == pOut.total_pages
        IN  /\ tc = IF pIn.count.some THEN pIn.count.v ELSE pIn.n
            /\ tp >= 0
            /\ tp * L >= tc
            /\ (tp - 1) * L < tc \/ tp = 0
            /\ Len(pOut.items) <= L
            /\ Len(pOut.items) = Max(0, Min(L, pIn.n - (P - 1) * L))
            /\ \A k \in 1..Len(pOut.items) : pOut.items[k] = (P - 1) * L + k
            /\ pOut.next_page = IF P < tp THEN Some(P + 1) ELSE None
            /\ pOut.prev_page = IF P > 1 THEN Some(P - 1) ELSE None
            /\ (tc = 25 /\ L = 10 /\ P = 1) =>
                  tp = 3 /\ pOut.next_page = Some(2) /\ pOut.prev_page = None
            /\ (tc = 25 /\ L = 10 /\ P = 3) =>
                  pOut.next_page = None /\ pOut.prev_page = Some(2)
            /\ (tc = 25 /\ pIn.n = 25 /\ L = 10 /\ P = 4) =>
                  /\ pOut.items = <<>>
                  /\ pOut.next_page = None
                  /\ pOut.prev_page = Some(3)

\* 25 rows, limit 10, page 4: past the last page
PaginationWitness ==
    /\ pOut.done
    /\ pOut.total_count = 25
    /\ pIn.n = 25
    /\ pIn.limit = Some(10)
    /\ pIn.page = Some(4)
    /\ pOut.items = <<>>
    /\ pOut.prev_page = Some(3)

\* C8 as stated: with total_count = 0, for every limit and page,
\* total_pages is 0, next_page and prev_page are absent and items is empty.
EmptyCountEmptyResult ==
    (pOut.done /\ pOut.total_count = 0) =>
        /\ pOut.total_pages = 0
        /\ pOut.next_page = None
        /\ pOut.prev_page = None
        /\ pOut.items = <<>>

\* C8 as amended: with total_count = 0, for every limit and page,
\* total_pages is 0 and next_page is absent; prev_page is absent for page
\* <= 1 and page-1 for a later page; items is empty when the paged query
\* has no rows, as it has when the count is taken over the paged query.
EmptyCountResult ==
    (pOut.done /\ pOut.total_count = 0) =>
        /\ pOut.total_pages = 0
        /\ pOut.next_page = None
        /\ pOut.prev_page =
              IF AtLeastOne(pIn.page) > 1 THEN Some(AtLeastOne(pIn.page) - 1)
              ELSE None
        /\ pIn.n = 0 => pOut.items = <<>>
        /\ ~pIn.count.some => pOut.items = <<>>

\* nothing to count, page 3 asked for: prev_page is 2
EmptyCountWitness ==
    /\ pOut.done
    /\ pOut.total_count = 0
    /\ pIn.page = Some(3)
    /\ pOut.prev_page = Some(2)
    /\ pOut.items = <<>>

\* C10: for the same table, the same filters and the same order_by, the
\* blocking and the non-blocking get_all return the same rows in the same
\* order.
VariantsAgree ==
    (qOut["blocking"].done /\ qOut["non-blocking"].done) =>
        qOut["blocking"] = qOut["non-blocking"]

====
